---- MODULE Spec2Model ----
(***************************************************************************)
(* TruthLens backend (src/backend/main.py): the heuristic product scorer   *)
(* analyze_product_legitimacy and the two request handlers check_ai_text   *)
(* and analyze_product, with the external AI detector as an environment    *)
(* that answers each call with any outcome the requests library can        *)
(* produce.                                                                *)
(*                                                                         *)
(* Python str values are TLA+ strings.  Confidence values are kept in      *)
(* hundredths (0.7 is 70, 0.05 is 5), detector scores likewise.            *)
(***************************************************************************)
EXTENDS Integers, Sequences, FiniteSets, TLC

VARIABLES
    endpoint,         \* which entry point this request runs
    item,             \* TextFromFrontEnd.text of a check-text request
    product_data,     \* ProductAnalysis of an analyze-product request
    pc,               \* position of the handler
    analysis_result,  \* the dict analyze_product builds and returns
    detector,         \* what the detector call of this request did
    detector_calls,   \* number of requests.post calls made so far
    response          \* the HTTP response, once sent

vars == <<endpoint, item, product_data, pc, analysis_result, detector,
          detector_calls, response>>

(***************************************************************************)
(* Bounds of the model.                                                    *)
(***************************************************************************)
\* longest generated price / seller / rating / reviews_count string
MaxLen == 3

(***************************************************************************)
(* Python str operations.                                                  *)
(***************************************************************************)
CharAt(s, i) == SubSeq(s, i, i)

Digits == {"0", "1", "2", "3", "4", "5", "6", "7", "8", "9"}

IsDigit(c) == c \in Digits

DigitVal(c) ==
    CASE c = "0" -> 0 [] c = "1" -> 1 [] c = "2" -> 2 [] c = "3" -> 3
      [] c = "4" -> 4 [] c = "5" -> 5 [] c = "6" -> 6 [] c = "7" -> 7
      [] c = "8" -> 8 [] c = "9" -> 9

\* the lower-case form of each upper-case letter
LowerOf ==
    [A |-> "a", B |-> "b", C |-> "c", D |-> "d", E |-> "e", F |-> "f", G |-> "g",
     H |-> "h", I |-> "i", J |-> "j", K |-> "k", L |-> "l", M |-> "m", N |-> "n",
     O |-> "o", P |-> "p", Q |-> "q", R |-> "r", S |-> "s", T |-> "t", U |-> "u",
     V |-> "v", W |-> "w", X |-> "x", Y |-> "y", Z |-> "z"]

LowerChar(c) == IF c \in DOMAIN LowerOf THEN LowerOf[c] ELSE c

\* str.lower()
RECURSIVE lower(_)
lower(s) == IF s = "" THEN "" ELSE LowerChar(CharAt(s, 1)) \o lower(Tail(s))

\* sub in s
contains(sub, s) ==
    \E i \in 1..(Len(s) - Len(sub) + 1) : SubSeq(s, i, i + Len(sub) - 1) = sub

\* s.replace(ch, '') for a one-character ch
RECURSIVE replace(_, _)
replace(s, ch) ==
    IF s = "" THEN ""
    ELSE (IF CharAt(s, 1) = ch THEN "" ELSE CharAt(s, 1)) \o replace(Tail(s), ch)

\* s.strip(), over the one whitespace character the inputs hold
RECURSIVE lstrip(_)
lstrip(s) == IF s # "" /\ CharAt(s, 1) = " " THEN lstrip(Tail(s)) ELSE s

RECURSIVE rstrip(_)
rstrip(s) ==
    IF s # "" /\ CharAt(s, Len(s)) = " " THEN rstrip(SubSeq(s, 1, Len(s) - 1)) ELSE s

strip(s) == rstrip(lstrip(s))

\* s.isdigit()
isdigit(s) == s # "" /\ \A i \in 1..Len(s) : IsDigit(CharAt(s, i))

(***************************************************************************)
(* re.search with the two patterns of the scorer.  Both patterns start     *)
(* with the class [\d,], so the leftmost match starts at the first         *)
(* character of that class; every later piece is greedy and optional, so   *)
(* no backtracking ever shortens it.                                       *)
(***************************************************************************)
InClass(c) == IsDigit(c) \/ c = ","

NoMatch == [matched |-> FALSE, group |-> ""]

\* index of the first character of [\d,] in s, 0 when there is none
FirstInClass(s) ==
    IF \E i \in 1..Len(s) : InClass(CharAt(s, i))
    THEN CHOOSE i \in 1..Len(s) :
            /\ InClass(CharAt(s, i))
            /\ \A k \in 1..(i - 1) : ~InClass(CharAt(s, k))
    ELSE 0

\* last index of the longest run of [\d,] that starts at i (s[i] is in the class)
ClassRunEnd(s, i) ==
    CHOOSE j \in i..Len(s) :
        /\ \A k \in i..j : InClass(CharAt(s, k))
        /\ (j = Len(s) \/ ~InClass(CharAt(s, j + 1)))

\* last index of the longest run of \d that starts at i; i - 1 when it is empty
DigitRunEnd(s, i) ==
    CHOOSE j \in (i - 1)..Len(s) :
        /\ \A k \in i..j : IsDigit(CharAt(s, k))
        /\ (j = Len(s) \/ ~IsDigit(CharAt(s, j + 1)))

\* end of the optional \. that may follow a run ending at j
AfterDot(s, j) == IF j < Len(s) /\ CharAt(s, j + 1) = "." THEN j + 1 ELSE j

MatchFrom(s, i, last) == [matched |-> TRUE, group |-> SubSeq(s, i, last)]

\* re.search(r'[\d,]+\.?\d*', s), i the index the match starts at
SearchPriceFrom(s, i) ==
    IF i = 0 THEN NoMatch
    ELSE MatchFrom(s, i, DigitRunEnd(s, AfterDot(s, ClassRunEnd(s, i)) + 1))

search_price(s) == SearchPriceFrom(s, FirstInClass(s))

\* re.search(r'[\d,]+', s), i the index the match starts at
SearchReviewsFrom(s, i) ==
    IF i = 0 THEN NoMatch ELSE MatchFrom(s, i, ClassRunEnd(s, i))

search_reviews(s) == SearchReviewsFrom(s, FirstInClass(s))

(***************************************************************************)
(* float() and int().  A parsed float is sign * mant / 10^scale, or nan,   *)
(* or an infinity; ok = FALSE is the ValueError.  The grammar is Python's  *)
(* without exponents and digit-group underscores: no input of the model    *)
(* holds the characters e, E or _ in a field that is parsed.               *)
(***************************************************************************)
RECURSIVE Pow10(_)
Pow10(k) == IF k = 0 THEN 1 ELSE 10 * Pow10(k - 1)

RECURSIVE DigitsToNat(_)
DigitsToNat(s) ==
    IF s = "" THEN 0
    ELSE 10 * DigitsToNat(SubSeq(s, 1, Len(s) - 1)) + DigitVal(CharAt(s, Len(s)))

ValueError == [ok |-> FALSE, kind |-> "error", neg |-> FALSE, mant |-> 0, scale |-> 0]

FloatValue(kind, neg, mant, scale) ==
    [ok |-> TRUE, kind |-> kind, neg |-> neg, mant |-> mant, scale |-> scale]

\* digits [ "." digits ]  or  "." digits, with at least one digit
IsDecimal(u) ==
    /\ \E i \in 1..Len(u) : IsDigit(CharAt(u, i))
    /\ \A i \in 1..Len(u) : IsDigit(CharAt(u, i)) \/ CharAt(u, i) = "."
    /\ Cardinality({i \in 1..Len(u) : CharAt(u, i) = "."}) <= 1

\* number of digits after the decimal point
Scale(u) ==
    IF \E i \in 1..Len(u) : CharAt(u, i) = "."
    THEN Len(u) - (CHOOSE i \in 1..Len(u) : CharAt(u, i) = ".")
    ELSE 0

IsNegative(t) == t # "" /\ CharAt(t, 1) = "-"

Unsigned(t) == IF t # "" /\ CharAt(t, 1) \in {"+", "-"} THEN Tail(t) ELSE t

\* u the text after the sign, lu the same in lower case
FloatOf(neg, u, lu) ==
    IF lu = "nan" THEN FloatValue("nan", neg, 0, 0)
    ELSE IF lu \in {"inf", "infinity"} THEN FloatValue("inf", neg, 0, 0)
    ELSE IF IsDecimal(u)
    THEN FloatValue("finite", neg, DigitsToNat(replace(u, ".")), Scale(u))
    ELSE ValueError

FloatStripped(t) == FloatOf(IsNegative(t), Unsigned(t), lower(Unsigned(t)))

float(s) == FloatStripped(strip(s))

Signed(v) == IF v.neg THEN 0 - v.mant ELSE v.mant

\* v < n and v > n for a parsed float v and an integer n (nan compares false)
FloatLess(v, n) ==
    CASE v.kind = "finite" -> Signed(v) < n * Pow10(v.scale)
      [] v.kind = "inf"    -> v.neg
      [] OTHER             -> FALSE

FloatGreater(v, n) ==
    CASE v.kind = "finite" -> Signed(v) > n * Pow10(v.scale)
      [] v.kind = "inf"    -> ~v.neg
      [] OTHER             -> FALSE

\* int(s) for s a match of [\d,]+
int(s) ==
    IF isdigit(s) THEN [ok |-> TRUE, value |-> DigitsToNat(s)]
    ELSE [ok |-> FALSE, value |-> 0]

(***************************************************************************)
(* analyze_product_legitimacy.  acc is the function's local state:         *)
(* reasons, scam_indicators, legit_indicators; raised is set when an       *)
(* exception leaves a block.                                               *)
(***************************************************************************)
suspicious_words ==
    {"urgent", "limited time", "act now", "guaranteed", "miracle", "secret",
     "exclusive offer"}

NewAcc ==
    [reasons |-> <<>>, scam_indicators |-> 0, legit_indicators |-> 0, raised |-> FALSE]

AddScam(acc, reason) ==
    [acc EXCEPT !.scam_indicators = @ + 1, !.reasons = Append(@, reason)]

AddLegit(acc, reason) ==
    [acc EXCEPT !.legit_indicators = @ + 1, !.reasons = Append(@, reason)]

Raise(acc) == [acc EXCEPT !.raised = TRUE]

\* TitleRule counting every phrase that matches
TitleRule_PerPhrase(acc, title) ==
    [acc EXCEPT
        !.scam_indicators =
            @ + Cardinality({w \in suspicious_words : contains(w, lower(title))}),
        !.reasons =
            @ \o [i \in 1..Cardinality({w \in suspicious_words : contains(w, lower(title))})
                    |-> "Suspicious language"]]

TitleRule(acc, title) ==
    IF \E word \in suspicious_words : contains(word, lower(title))
    THEN AddScam(acc, "Suspicious language")
    ELSE acc

\* an exception that leaves a try block reaches its bare except: pass
ExceptPass(acc, tried) == IF tried.raised THEN acc ELSE tried

PriceValued(acc, price_value) ==
    IF ~price_value.ok THEN Raise(acc)
    ELSE IF FloatLess(price_value, 1) THEN AddScam(acc, "Low price")
    ELSE IF FloatGreater(price_value, 1000) THEN AddLegit(acc, "Normal price")
    ELSE acc

PriceMatched(acc, price_match) ==
    IF price_match.matched THEN PriceValued(acc, float(price_match.group)) ELSE acc

\* the statements inside the price rule's try
PriceTry(acc, price) ==
    PriceMatched(acc, search_price(replace(replace(price, "$"), ",")))

PriceRule(acc, price) ==
    IF acc.raised \/ price = "" THEN acc ELSE ExceptPass(acc, PriceTry(acc, price))

SellerLowered(acc, seller_lower) ==
    IF \/ contains("amazon", seller_lower)
       \/ contains("walmart", seller_lower)
       \/ contains("target", seller_lower)
    THEN AddLegit(acc, "Reputable seller")
    ELSE IF Len(seller_lower) < 3 \/ isdigit(seller_lower)
    THEN AddScam(acc, "Suspicious seller")
    ELSE acc

\* SellerRule without the "if product_data.seller" guard
SellerRule_EmptyCounts(acc, seller) ==
    IF acc.raised THEN acc ELSE SellerLowered(acc, lower(seller))

SellerRule(acc, seller) ==
    IF acc.raised \/ seller = "" THEN acc ELSE SellerLowered(acc, lower(seller))

RatingValued(acc, rating_value) ==
    IF ~rating_value.ok THEN Raise(acc)
    ELSE IF FloatLess(rating_value, 2) THEN AddScam(acc, "Low rating")
    ELSE IF FloatGreater(rating_value, 4) THEN AddLegit(acc, "Good rating")
    ELSE acc

\* the statements inside the rating rule's try
RatingTry(acc, rating) == RatingValued(acc, float(rating))

\* RatingRule without its try / except
RatingRule_NoExcept(acc, rating) ==
    IF acc.raised \/ rating = "" THEN acc ELSE RatingTry(acc, rating)

RatingRule(acc, rating) ==
    IF acc.raised \/ rating = "" THEN acc ELSE ExceptPass(acc, RatingTry(acc, rating))

ReviewsValued(acc, reviews_value) ==
    IF ~reviews_value.ok THEN Raise(acc)
    ELSE IF reviews_value.value < 5 THEN AddScam(acc, "Few reviews")
    ELSE IF reviews_value.value > 50 THEN AddLegit(acc, "Many reviews")
    ELSE acc

ReviewsMatched(acc, reviews_match) ==
    IF reviews_match.matched THEN ReviewsValued(acc, int(reviews_match.group)) ELSE acc

\* the statements inside the review-count rule's try
ReviewsTry(acc, reviews_count) ==
    ReviewsMatched(acc, search_reviews(replace(reviews_count, ",")))

ReviewsRule(acc, reviews_count) ==
    IF acc.raised \/ reviews_count = "" THEN acc
    ELSE ExceptPass(acc, ReviewsTry(acc, reviews_count))

\* Confidence with a weight of 0.5 for 0.05
Confidence_HeavyWeight(indicators) == 70 + indicators * 50

\* 0.7 + (indicators * 0.05), in hundredths
Confidence(indicators) == 70 + indicators * 5

\* Verdict with a tie counted as scam
Verdict_TieIsScam(s, l) ==
    IF s >= l THEN [status |-> "scam", confidence |-> Confidence(s)]
    ELSE [status |-> "legit", confidence |-> Confidence(l)]

\* "Determine final status"
Verdict(s, l) ==
    IF s > l THEN [status |-> "scam", confidence |-> Confidence(s)]
    ELSE IF l > s THEN [status |-> "legit", confidence |-> Confidence(l)]
    ELSE [status |-> "uncertain", confidence |-> 40]

\* what the caller sees when an exception leaves the scorer
ScorerRaised == [raised |-> TRUE]

\* the returned dict
ReturnDict(acc, verdict) ==
    IF acc.raised THEN ScorerRaised
    ELSE [status     |-> verdict.status,
          confidence |-> verdict.confidence,
          reasons    |-> acc.reasons,
          indicators |-> [scam_indicators  |-> acc.scam_indicators,
                          legit_indicators |-> acc.legit_indicators]]

FinalStatus(acc) ==
    ReturnDict(acc, Verdict(acc.scam_indicators, acc.legit_indicators))

Returned(result) == "status" \in DOMAIN result

analyze_product_legitimacy(p) ==
    FinalStatus(
        ReviewsRule(
            RatingRule(
                SellerRule(
                    PriceRule(TitleRule(NewAcc, p.title), p.price),
                    p.seller),
                p.rating),
            p.reviews_count))

(***************************************************************************)
(* Product records.  The sample values are the ones the documentation      *)
(* lists plus boundary values of each rule; the generated values are every *)
(* string of at most MaxLen characters over a small alphabet per field.    *)
(***************************************************************************)
RECURSIVE Strings(_, _)
Strings(alphabet, n) ==
    IF n = 0 THEN {""}
    ELSE LET shorter == Strings(alphabet, n - 1) IN
         shorter \cup {s \o c : s \in shorter, c \in alphabet}

Product(t, d, p, s, r, n) ==
    [title |-> t, description |-> d, price |-> p, seller |-> s, rating |-> r,
     reviews_count |-> n, url |-> ""]

Titles ==
    {"", " ", "Cure", "Guaranteed Miracle Cure", "Exclusive Offer - Act Now!",
     "URGENT sale", "Urgen t"}

Prices == {"", "$0.50", "$1500", "abc", "$2", "1,000", "$1,000.50", ".5"}

Sellers == {"", "Amazon.com", "42", "xx", "Bob's Shop", "SuperTARGET", "abc"}

Ratings == {"", "1.5", "4.8", "n/a", "1.0", "4.0", "2.0", " 4.5 ", "-inf"}

ReviewCounts == {"", "3", "1,200", "2", "50", "5 reviews", "none", "(51)"}

SampleProducts ==
    {Product(t, "", p, s, r, n) :
        t \in Titles, p \in Prices, s \in Sellers, r \in Ratings, n \in ReviewCounts}

PriceAlphabet == {"$", ",", ".", "0", "1", "9", "x"}

SellerAlphabet == {"a", "7", "Z"}

RatingAlphabet == {"1", "4", ".", "-", "n", "a", " "}

ReviewsAlphabet == {"0", "4", "5", ",", "r"}

\* records the generated strings are placed in: every other rule a scam
\* indicator, every other rule a legit indicator, nothing else set
ScamBase == Product("Guaranteed Miracle Cure", "", "$0.50", "xx", "1.0", "2")

LegitBase == Product("Cure", "", "$1500", "Amazon.com", "4.8", "1,200")

BaseProducts == {ScamBase, LegitBase, Product("Cure", "", "", "", "", "")}

\* each record of bases with one field replaced by each generated string
Generated(bases) ==
    UNION {
        {[b EXCEPT !.price = g] : g \in Strings(PriceAlphabet, MaxLen)} \cup
        {[b EXCEPT !.seller = g] : g \in Strings(SellerAlphabet, MaxLen)} \cup
        {[b EXCEPT !.rating = g] : g \in Strings(RatingAlphabet, MaxLen)} \cup
        {[b EXCEPT !.reviews_count = g] : g \in Strings(ReviewsAlphabet, MaxLen)}
        : b \in bases}

GeneratedProducts == Generated(BaseProducts)

ScorerProducts == SampleProducts \cup GeneratedProducts

\* the records sent to analyze-product: generated records, and sample
\* records with each kind of title and description
HandlerProducts ==
    Generated({LegitBase}) \cup
    {Product(t, d, p, s, r, n) :
        t \in {"", " ", "Cure", "Guaranteed Miracle Cure"},
        d \in {"", " ", "Great product"},
        p \in {"", "$0.50", "$1500", "abc"},
        s \in {"", "Amazon.com", "xx"},
        r \in {"", "4.8", "1.0", "n/a"},
        n \in {"", "1,200", "2"}}

\* the texts sent to check-text
Texts == {"", "hello", "Some generated text"}

NoProduct == Product("", "", "", "", "", "")

NoResult == [pending |-> TRUE]

(***************************************************************************)
(* The detector, as the handlers see it through requests: the call raises  *)
(* (no connection, a timeout), raise_for_status raises on a status that is *)
(* not 2xx, or the reply is 2xx and its body is or is not JSON.  A body    *)
(* that is not JSON makes response.json() raise JSONDecodeError, which is  *)
(* a RequestException from requests 2.27 on and a plain ValueError before: *)
(* the source pins no version, so both are possible.                       *)
(***************************************************************************)
Absent == [t |-> "absent", v |-> 0]

\* detector scores, in hundredths, on both sides of the 0.7 threshold
Scores == {0, 70, 71, 90, 100}

ScoreFields ==
    {Absent, [t |-> "string", v |-> 0], [t |-> "null", v |-> 0]}
        \cup {[t |-> "number", v |-> n] : n \in Scores}

Json(t, score, items, text) == [t |-> t, score |-> score, items |-> items, text |-> text]

JsonValues ==
    {Json("object", f, <<>>, "") : f \in ScoreFields}
        \cup {Json("array", Absent, i, "") : i \in {<<>>, <<"score">>}}
        \cup {Json("string", Absent, <<>>, x) : x \in {"ok", "high score"}}
        \cup {Json("number", Absent, <<>>, ""), Json("null", Absent, <<>>, "")}

NoJson == Json("none", Absent, <<>>, "")

Reply(outcome, cause, json, decode) ==
    [outcome |-> outcome, cause |-> cause, json |-> json,
     decode_is_request_exception |-> decode]

TransportErrors == {"connection_error", "timeout", "http_error"}

DetectorReplies ==
    {Reply("connection_error", "ConnectionError: detector unreachable", NoJson, FALSE),
     Reply("timeout", "Timeout: detector did not answer", NoJson, FALSE),
     Reply("http_error", "HTTPError: 503 Server Error", NoJson, FALSE)}
        \cup {Reply("ok_json", "", j, FALSE) : j \in JsonValues}
        \cup {Reply("ok_not_json", "JSONDecodeError: Expecting value", NoJson, b) :
                b \in BOOLEAN}

NoDetector == Reply("none", "", NoJson, FALSE)

(***************************************************************************)
(* Responses.                                                              *)
(***************************************************************************)
NoResponse == [status_code |-> 0, kind |-> "none", body |-> ""]

\* a handler's return value, sent as 200
Ok(body) == [status_code |-> 200, kind |-> "json", body |-> body]

\* raise HTTPException(status_code=..., detail=...)
HTTPException(status_code, detail) ==
    [status_code |-> status_code, kind |-> "http_exception", body |-> [detail |-> detail]]

\* an exception no handler catches: the framework's own 500
Unhandled == [status_code |-> 500, kind |-> "unhandled", body |-> "Internal Server Error"]

(***************************************************************************)
(* POST /check-text                                                        *)
(***************************************************************************)
CheckTextResponse(d) ==
    IF d.outcome \in TransportErrors
    THEN HTTPException(500, "API error: " \o d.cause)
    ELSE IF d.outcome = "ok_json" THEN Ok(d.json)
    ELSE Unhandled

check_ai_text ==
    /\ endpoint = "check-text"
    /\ pc = "start"
    /\ \E d \in DetectorReplies :
        /\ detector' = d
        /\ response' = CheckTextResponse(d)
    /\ detector_calls' = detector_calls + 1
    /\ pc' = "done"
    /\ UNCHANGED <<endpoint, item, product_data, analysis_result>>

(***************************************************************************)
(* POST /analyze-product                                                   *)
(***************************************************************************)
Max(a, b) == IF a >= b THEN a ELSE b

Continue(res) == [result |-> res, error |-> ""]

Fail(res, error) == [result |-> res, error |-> error]

\* combined_text without the description
combined_text_TitleOnly(p) == p.title

combined_text(p) == p.title \o " " \o p.description

\* AdjustForAI that appends the reason and leaves a legit status alone
AdjustForAI_KeepsStatus(res, ai_score) ==
    IF ai_score > 70
    THEN [res EXCEPT !.reasons = Append(@, "AI-generated content detected")]
    ELSE res

\* AdjustForAI with the threshold included
AdjustForAI_AtThreshold(res, ai_score) ==
    IF ai_score >= 70
    THEN [(IF res.status = "legit"
           THEN [res EXCEPT !.status = "uncertain",
                            !.confidence = Max(30, @ - 20)]
           ELSE res)
          EXCEPT !.reasons = Append(@, "AI-generated content detected")]
    ELSE res

\* if ai_score > 0.7: ...
AdjustForAI(res, ai_score) ==
    IF ai_score > 70
    THEN [(IF res.status = "legit"
           THEN [res EXCEPT !.status = "uncertain",
                            !.confidence = Max(30, @ - 20)]
           ELSE res)
          EXCEPT !.reasons = Append(@, "AI-generated content detected")]
    ELSE res

\* 'score' in ai_result: a key of a dict, an element of a list, a substring
\* of a str, a TypeError for anything else
ScoreIn(j) ==
    CASE j.t = "object" -> [ok |-> TRUE, value |-> j.score.t # "absent"]
      [] j.t = "array"  -> [ok |-> TRUE,
                            value |-> \E i \in 1..Len(j.items) : j.items[i] = "score"]
      [] j.t = "string" -> [ok |-> TRUE, value |-> contains("score", j.text)]
      [] OTHER          -> [ok |-> FALSE, value |-> FALSE]

\* if 'score' in ai_result: ai_score = ai_result.get(...); if ai_score > 0.7: ...
InspectScore(res, j) ==
    IF ~ScoreIn(j).ok THEN Fail(res, "TypeError: argument is not iterable")
    ELSE IF ~ScoreIn(j).value THEN Continue(res)
    ELSE IF j.t # "object" THEN Fail(res, "AttributeError: no attribute 'get'")
    ELSE IF j.score.t # "number" THEN Fail(res, "TypeError: '>' not supported")
    ELSE Continue(AdjustForAI(res, j.score.v))

\* analysis_result['ai_analysis'] = ai_result, then the score adjustment
OnJson(res, j) == InspectScore([ai_analysis |-> j] @@ res, j)

\* OnRequestException failing the request as check-text does
OnRequestException_Fails(res, e) == Fail(res, e)

\* except requests.exceptions.RequestException as e
OnRequestException(res, e) == Continue([ai_error |-> e] @@ res)

\* the inner try of analyze_product from the reply on
AfterReply(res, d) ==
    CASE d.outcome \in TransportErrors -> OnRequestException(res, d.cause)
      [] d.outcome = "ok_json"         -> OnJson(res, d.json)
      [] OTHER -> IF d.decode_is_request_exception
                  THEN OnRequestException(res, d.cause)
                  ELSE Fail(res, d.cause)

\* except Exception as e: raise HTTPException(500, f"Analysis error: {str(e)}")
AnalysisError(error) == HTTPException(500, "Analysis error: " \o error)

AnalysisResponse(res, p) ==
    Ok([success |-> TRUE, analysis |-> res,
        product_info |-> [title |-> p.title, url |-> p.url]])

\* analysis_result = analyze_product_legitimacy(product_data)
Score ==
    /\ endpoint = "analyze-product"
    /\ pc = "start"
    /\ analysis_result' = analyze_product_legitimacy(product_data)
    /\ IF Returned(analysis_result')
       THEN pc' = "scored" /\ UNCHANGED response
       ELSE pc' = "done" /\ response' = AnalysisError("ValueError")
    /\ UNCHANGED <<endpoint, item, product_data, detector, detector_calls>>

\* if combined_text.strip(): requests.post(...), raise_for_status()
DetectorCall ==
    /\ endpoint = "analyze-product"
    /\ pc = "scored"
    /\ strip(combined_text(product_data)) # ""
    /\ \E d \in DetectorReplies : detector' = d
    /\ detector_calls' = detector_calls + 1
    /\ pc' = "replied"
    /\ UNCHANGED <<endpoint, item, product_data, analysis_result, response>>

\* combined_text.strip() is empty: the detector is not called
SkipDetector ==
    /\ endpoint = "analyze-product"
    /\ pc = "scored"
    /\ strip(combined_text(product_data)) = ""
    /\ pc' = "respond"
    /\ UNCHANGED <<endpoint, item, product_data, analysis_result, detector,
                   detector_calls, response>>

\* ai_response.json() and the rest of the inner try, or its except
HandleReply ==
    /\ endpoint = "analyze-product"
    /\ pc = "replied"
    /\ analysis_result' = AfterReply(analysis_result, detector).result
    /\ IF AfterReply(analysis_result, detector).error = ""
       THEN pc' = "respond" /\ UNCHANGED response
       ELSE /\ pc' = "done"
            /\ response' = AnalysisError(AfterReply(analysis_result, detector).error)
    /\ UNCHANGED <<endpoint, item, product_data, detector, detector_calls>>

\* return {'success': True, 'analysis': analysis_result, 'product_info': ...}
Respond ==
    /\ endpoint = "analyze-product"
    /\ pc = "respond"
    /\ response' = AnalysisResponse(analysis_result, product_data)
    /\ pc' = "done"
    /\ UNCHANGED <<endpoint, item, product_data, analysis_result, detector,
                   detector_calls>>

Init ==
    /\ endpoint \in {"check-text", "analyze-product"}
    /\ IF endpoint = "check-text"
       THEN item \in Texts /\ product_data = NoProduct
       ELSE item = "" /\ product_data \in HandlerProducts
    /\ pc = "start"
    /\ analysis_result = NoResult
    /\ detector = NoDetector
    /\ detector_calls = 0
    /\ response = NoResponse

Next ==
    \/ check_ai_text
    \/ Score
    \/ DetectorCall
    \/ SkipDetector
    \/ HandleReply
    \/ Respond

Spec == Init /\ [][Next]_vars

(***************************************************************************)
(* The scorer on its own: a record is drawn and the scorer is applied.     *)
(***************************************************************************)
InitScorer ==
    /\ endpoint = "scorer"
    /\ item = ""
    /\ product_data \in ScorerProducts
    /\ pc = "call"
    /\ analysis_result = NoResult
    /\ detector = NoDetector
    /\ detector_calls = 0
    /\ response = NoResponse

ApplyScorer ==
    /\ endpoint = "scorer"
    /\ pc = "call"
    /\ analysis_result' = analyze_product_legitimacy(product_data)
    /\ pc' = "returned"
    /\ UNCHANGED <<endpoint, item, product_data, detector, detector_calls, response>>

NextScorer == ApplyScorer

SpecScorer == InitScorer /\ [][NextScorer]_vars

(***************************************************************************)
(* Properties of the scorer, checked under SpecScorer.                     *)
(***************************************************************************)
ScorerReturned == endpoint = "scorer" /\ pc = "returned"

ScamCount == analysis_result.indicators.scam_indicators

LegitCount == analysis_result.indicators.legit_indicators

\* C1: with s and l the scam and legit counts of the five rules (one reason
\* per count), s > l gives scam with confidence 0.7 + 0.05*s, l > s gives
\* legit with confidence 0.7 + 0.05*l, and s = l gives uncertain with 0.4.
C1_Aggregation ==
    ScorerReturned =>
        /\ Returned(analysis_result)
        /\ ScamCount + LegitCount = Len(analysis_result.reasons)
        /\ ScamCount > LegitCount =>
              /\ analysis_result.status = "scam"
              /\ analysis_result.confidence = 70 + 5 * ScamCount
        /\ LegitCount > ScamCount =>
              /\ analysis_result.status = "legit"
              /\ analysis_result.confidence = 70 + 5 * LegitCount
        /\ ScamCount = LegitCount =>
              /\ analysis_result.status = "uncertain"
              /\ analysis_result.confidence = 40

\* a tie of two against two: uncertain although four rules triggered
C1_Witness ==
    /\ ScorerReturned
    /\ ScamCount = 2
    /\ LegitCount = 2
    /\ analysis_result.status = "uncertain"

NoSuspiciousWord(title) ==
    \A word \in suspicious_words : ~contains(word, lower(title))

OnlyTitleSet(p) ==
    p.price = "" /\ p.seller = "" /\ p.rating = "" /\ p.reviews_count = ""

\* C6: a record whose price, seller, rating and reviews_count are empty and
\* whose title holds no suspicious phrase scores uncertain, 0.4, no reasons;
\* the empty seller is not a "length < 3" suspicious seller.
C6_EmptyRecord ==
    (ScorerReturned /\ OnlyTitleSet(product_data) /\ NoSuspiciousWord(product_data.title)) =>
        /\ analysis_result.status = "uncertain"
        /\ analysis_result.confidence = 40
        /\ analysis_result.reasons = <<>>
        /\ ScamCount = 0

C6_Witness ==
    /\ ScorerReturned
    /\ OnlyTitleSet(product_data)
    /\ product_data.title = "Urgen t"
    /\ analysis_result.reasons = <<>>

\* a field its rule cannot read as a number
PriceUnparseable(price) ==
    /\ price # ""
    /\ \/ ~search_price(replace(replace(price, "$"), ",")).matched
       \/ ~float(search_price(replace(replace(price, "$"), ",")).group).ok

RatingUnparseable(rating) == rating # "" /\ ~float(rating).ok

ReviewsUnparseable(reviews_count) ==
    /\ reviews_count # ""
    /\ \/ ~search_reviews(replace(reviews_count, ",")).matched
       \/ ~int(search_reviews(replace(reviews_count, ",")).group).ok

\* C8: the scorer returns a result for every record, and a price, rating or
\* reviews_count that cannot be parsed leaves the whole result what it is
\* for the same record with that field empty.
C8_NeverFails ==
    ScorerReturned =>
        /\ Returned(analysis_result)
        /\ PriceUnparseable(product_data.price) =>
              analysis_result =
                  analyze_product_legitimacy([product_data EXCEPT !.price = ""])
        /\ RatingUnparseable(product_data.rating) =>
              analysis_result =
                  analyze_product_legitimacy([product_data EXCEPT !.rating = ""])
        /\ ReviewsUnparseable(product_data.reviews_count) =>
              analysis_result =
                  analyze_product_legitimacy([product_data EXCEPT !.reviews_count = ""])

\* rating "n/a" and price "abc" beside a seller and a review count that count
C8_Witness ==
    /\ ScorerReturned
    /\ product_data.rating = "n/a"
    /\ product_data.price = "abc"
    /\ product_data.reviews_count = "none"
    /\ product_data.seller = "xx"
    /\ analysis_result.reasons = <<"Suspicious seller">>

CombinedScenario ==
    Product("Guaranteed Miracle Cure", "", "$2", "xx", "1.0", "2")

\* C9 as stated: the combined scenario scores scam_count = 5, legit_count = 0,
\* scam, confidence 0.7 + 0.05*scam_count, the title counting once.
C9_FiveIndicators ==
    (ScorerReturned /\ product_data = CombinedScenario) =>
        /\ ScamCount = 5
        /\ LegitCount = 0
        /\ analysis_result.status = "scam"
        /\ analysis_result.confidence = 70 + 5 * ScamCount
        /\ TitleRule(NewAcc, product_data.title).scam_indicators <= 1

\* C9 amended: the combined scenario scores scam_count = 4 (price "$2" is
\* neither below 1.0 nor above 1000), legit_count = 0, scam, confidence 0.9,
\* the title counting once although two phrases match.
C9_FourIndicators ==
    (ScorerReturned /\ product_data = CombinedScenario) =>
        /\ ScamCount = 4
        /\ LegitCount = 0
        /\ analysis_result.status = "scam"
        /\ analysis_result.confidence = 90
        /\ analysis_result.reasons =
              <<"Suspicious language", "Suspicious seller", "Low rating", "Few reviews">>

C9_Witness ==
    /\ ScorerReturned
    /\ product_data = CombinedScenario
    /\ contains("guaranteed", lower(product_data.title))
    /\ contains("miracle", lower(product_data.title))
    /\ analysis_result.status = "scam"

(***************************************************************************)
(* Properties of the handlers, checked under Spec.                         *)
(***************************************************************************)
AnalyzeDone == endpoint = "analyze-product" /\ pc = "done"

Analyze200 == AnalyzeDone /\ response.status_code = 200

Heuristic == analyze_product_legitimacy(product_data)

AIReason == "AI-generated content detected"

\* the detector's reply is a JSON object whose score is a number above 0.7
HighScore(d) ==
    /\ d.outcome = "ok_json"
    /\ d.json.t = "object"
    /\ d.json.score.t = "number"
    /\ d.json.score.v > 70

\* a JSON object whose score is a number of at most 0.7, or that has no score
LowOrNoScore(d) ==
    /\ d.outcome = "ok_json"
    /\ d.json.t = "object"
    /\ \/ d.json.score.t = "absent"
       \/ d.json.score.t = "number" /\ d.json.score.v <= 70

\* C2: when the detector call ends in a transport error the request is
\* answered 200 with success true, ai_error holds the cause, and status,
\* confidence and reasons are the heuristic scorer's.
C2_TransportErrorDegrades ==
    (AnalyzeDone /\ detector.outcome \in TransportErrors) =>
        /\ response.status_code = 200
        /\ response.body.success = TRUE
        /\ "ai_error" \in DOMAIN response.body.analysis
        /\ response.body.analysis.ai_error = detector.cause
        /\ LET heuristic == Heuristic IN
           /\ response.body.analysis.status = heuristic.status
           /\ response.body.analysis.confidence = heuristic.confidence
           /\ response.body.analysis.reasons = heuristic.reasons

C2_Witness ==
    /\ Analyze200
    /\ detector.outcome = "connection_error"
    /\ response.body.analysis.status = "legit"
    /\ "ai_error" \in DOMAIN response.body.analysis

\* C3: when the heuristic status is legit and the detector's score is above
\* 0.7, the final status is uncertain, the confidence is
\* max(0.3, heuristic confidence - 0.2), and the AI reason is the last reason.
C3_LegitDowngraded ==
    (AnalyzeDone /\ HighScore(detector)) =>
        LET heuristic == Heuristic IN
        heuristic.status = "legit" =>
            /\ response.status_code = 200
            /\ response.body.analysis.status = "uncertain"
            /\ response.body.analysis.confidence = Max(30, heuristic.confidence - 20)
            /\ response.body.analysis.reasons = Append(heuristic.reasons, AIReason)

C3_Witness ==
    /\ Analyze200
    /\ HighScore(detector)
    /\ Heuristic.status = "legit"
    /\ Heuristic.confidence = 90
    /\ response.body.analysis.confidence = 70

\* C4 as stated: a check-text request ends either in 200 with the detector's
\* JSON unchanged or in 500 with a detail that starts with "API error: ".
C4_TwoOutcomes ==
    (endpoint = "check-text" /\ pc = "done") =>
        \/ /\ response.status_code = 200
           /\ response.kind = "json"
           /\ response.body = detector.json
        \/ /\ response.status_code = 500
           /\ response.kind = "http_exception"
           /\ SubSeq(response.body.detail, 1, 11) = "API error: "

\* C5: the confidence of every 200 response of analyze-product is in [0, 1].
C5_ConfidenceInUnitInterval ==
    Analyze200 =>
        /\ response.body.analysis.confidence >= 0
        /\ response.body.analysis.confidence <= 100

\* the largest confidence there is: five scam indicators
C5_Witness ==
    /\ Analyze200
    /\ response.body.analysis.indicators.scam_indicators = 5
    /\ response.body.analysis.confidence = 95

\* C7: on a detector score above 0.7 a heuristic status of scam or uncertain
\* keeps status and confidence and gains only the AI reason (and
\* ai_analysis); on a score of at most 0.7 or no score field the result gains
\* only ai_analysis.  Either way the request is answered 200.
C7_OtherwiseUnchanged ==
    (AnalyzeDone /\ detector.outcome = "ok_json") =>
        LET heuristic == Heuristic IN
        /\ (HighScore(detector) /\ heuristic.status \in {"scam", "uncertain"}) =>
              /\ response.status_code = 200
              /\ response.body.analysis =
                    [ai_analysis |-> detector.json] @@
                    [heuristic EXCEPT !.reasons = Append(@, AIReason)]
        /\ LowOrNoScore(detector) =>
              /\ response.status_code = 200
              /\ response.body.analysis = [ai_analysis |-> detector.json] @@ heuristic
        /\ (response.status_code = 200 /\ ~HighScore(detector)) =>
              response.body.analysis = [ai_analysis |-> detector.json] @@ heuristic

\* a score of exactly 0.7 on a scam record changes nothing
C7_Witness ==
    /\ Analyze200
    /\ detector.outcome = "ok_json"
    /\ detector.json.score = [t |-> "number", v |-> 70]
    /\ Heuristic.status = "scam"
    /\ response.body.analysis.reasons = Heuristic.reasons

Blank(p) == strip(p.title \o " " \o p.description) = ""

\* C10: the detector is called at most once and only after the scorer has
\* returned; in a 200 response of analyze-product a blank combined text means
\* no call and neither ai_analysis nor ai_error, a parsed reply means
\* ai_analysis without ai_error, a transport error means ai_error without
\* ai_analysis, and the two are never both present.
C10_DetectorOutcomeShape ==
    /\ detector_calls <= 1
    /\ (endpoint = "analyze-product" /\ detector_calls > 0) =>
          (Returned(analysis_result) /\ ~Blank(product_data))
    /\ Analyze200 =>
          /\ Blank(product_data) =>
                /\ detector_calls = 0
                /\ "ai_analysis" \notin DOMAIN response.body.analysis
                /\ "ai_error" \notin DOMAIN response.body.analysis
          /\ ~Blank(product_data) =>
                /\ detector_calls = 1
                /\ ("ai_analysis" \in DOMAIN response.body.analysis)
                      # ("ai_error" \in DOMAIN response.body.analysis)
          /\ detector.outcome = "ok_json" =>
                /\ "ai_analysis" \in DOMAIN response.body.analysis
                /\ response.body.analysis.ai_analysis = detector.json
                /\ "ai_error" \notin DOMAIN response.body.analysis
          /\ detector.outcome \in TransportErrors =>
                /\ "ai_error" \in DOMAIN response.body.analysis
                /\ "ai_analysis" \notin DOMAIN response.body.analysis

\* a record whose title is blank and whose description is not: one call
C10_Witness ==
    /\ Analyze200
    /\ product_data.title = " "
    /\ product_data.description = "Great product"
    /\ detector_calls = 1
    /\ "ai_analysis" \in DOMAIN response.body.analysis

====
